---------------------------- MODULE Spec2Model ----------------------------
(***************************************************************************)
(* A model of adaptivepm: the Portfolio Vector Memory and the Experience   *)
(* Replay Memory of memory.py, the DDPG agent of ddpg_agent.py (its        *)
(* training loop, its actor update and its soft update of the target       *)
(* networks), and the transaction cost of portfolio.py.                    *)
(*                                                                         *)
(* The module holds seven specifications over one set of variables:        *)
(*   SpecPVM     the PortfolioVectorMemory object and its two methods      *)
(*   SpecPvmCaller the same, with a caller writing into returned tensors   *)
(*   SpecReplay  the ExperienceReplayMemory object and its two methods     *)
(*   SpecAgent   the agent's methods: optimizer steps and soft updates     *)
(*   SpecPortfolio the portfolio's weight drift and transaction cost       *)
(*   Spec        DDPGAgent.train, statement by statement                   *)
(*   SpecRetrain DDPGAgent.train, called more than once on one agent       *)
(***************************************************************************)
EXTENDS Integers, Sequences, FiniteSets, TLC

VARIABLES
    \* PortfolioVectorMemory
    n_samples,        \* number of periods (rows of memory)
    initial_weight,   \* the constructor's optional argument, or None
    memory,           \* period index -> allocation vector
    lastWrite,        \* history: index -> the rows the latest update call
                      \*   that targeted it carried for it ({} if none)
    \* ExperienceReplayMemory
    buffer,           \* the deque, oldest first
    hist,             \* history: every transition ever appended, in order
    \* DDPGAgent: the four networks, each a tuple of float32 parameters
    actor, critic, target_actor, target_critic,
    tau,              \* the agent's tau and the 1.0 - tau it computes
    actor_training,   \* the actor's mode: TRUE train, FALSE eval
    calls,            \* history: method calls made on the agent so far
    \* DDPGAgent.train
    pc,               \* the statement train is at
    epoch, idx,       \* the two loop counters
    n_batches,        \* len(self.dataloader): the triples of one pass
    locals,           \* the step's local variables
    stages,           \* history: the stages the current step completed
    writes,           \* history: the index batches the current step wrote
    passWrites,       \* history: index -> the update calls of the current
                      \*   pass that targeted it
    outcome           \* what the last method call did (returned or raised)

pvmVars == <<n_samples, initial_weight, memory, lastWrite>>
ermVars == <<buffer, hist>>
netVars == <<actor, critic, target_actor, target_critic, tau, actor_training>>
trainVars == <<pc, epoch, idx, n_batches, locals, stages, writes, passWrites>>
vars == <<pvmVars, ermVars, netVars, trainVars, calls, outcome>>

\* Python's None where a vector is optional: the empty tuple
None == <<>>

(***************************************************************************)
(* Bounds of the model.                                                    *)
(***************************************************************************)
PvmSamples == 2      \* n_samples of a memory used on its own
NSamples == 3        \* n_samples of the agent's portfolio: the periods of its history
MNoncash == 2        \* m_noncash_assets
MaxRows == 2         \* rows of a batch handed to a method
maxlen == 3          \* deque(maxlen=...): 1000000 in the code, small here
MaxAdded == 4        \* transitions appended over a run of the replay memory
NParams == 2         \* parameters of a network
MaxCalls == 2        \* method calls made on an agent
BatchSize == 2       \* batch_size of the agent
NEpochs == 2         \* n_epochs of the agent
MaxBatches == 2      \* len(dataloader) ranges over 0..MaxBatches
TrainCalls == 2      \* calls of train() on one agent

(***************************************************************************)
(* Allocation vectors.  A component is a fraction <<num, den>>; the code   *)
(* does no arithmetic on stored vectors, it only builds the initial one.   *)
(***************************************************************************)
ConstVec(c) == [j \in 1..MNoncash |-> c]

\* torch.ones(n_samples, m) / (m + 1): one row of it
UniformRow == ConstVec(<<1, MNoncash + 1>>)

\* The allocations a caller or the actor hands in: all cash, and fully
\* invested in equal parts.
AllCash == ConstVec(<<0, 1>>)
EqualParts == ConstVec(<<1, MNoncash>>)
Actions == {AllCash, EqualParts}

Indices(n) == 0..(n - 1)

\* Batches of k rows over a set S, k in 1..MaxRows
Batches(S) == UNION {[1..k -> S] : k \in 1..MaxRows}

\* Batches of indices into a memory of n rows.  Row k of a batch goes with
\* row k of the weights, and the rows are otherwise unordered, so the
\* batches are taken with their indices in non-decreasing order.
IndexBatches(n) ==
    {b \in Batches(Indices(n)) : \A k \in 1..(Len(b) - 1) : b[k] <= b[k + 1]}

(***************************************************************************)
(* PortfolioVectorMemory                                                   *)
(***************************************************************************)
\* __post_init__: every row is ones / (m + 1); initial_weight is not read.
PvmPostInit(n, iw) == [i \in Indices(n) |-> UniformRow]

\* The slots a batch of indices names
Touched(indices) == {indices[k] : k \in DOMAIN indices}

\* A store that keeps what a slot already holds once it was written
UpdateMemoryStackKeepsWritten(mem, new_weights, indices) ==
    {[i \in DOMAIN mem |->
        IF i \in Touched(indices) /\ mem[i] = UniformRow
        THEN new_weights[CHOOSE k \in DOMAIN indices : indices[k] = i]
        ELSE mem[i]]}

\* memory[indices] = new_weights with a tensor of indices (index_put_ without
\* accumulate).  Row k goes to slot indices[k]; when an index occurs in
\* several rows, which of those rows ends up stored is not defined: the
\* outcomes are all the ways of picking one of its rows for each slot.
UpdateMemoryStack(mem, new_weights, indices) ==
    LET Winners == {f \in [Touched(indices) -> DOMAIN indices] :
                        \A i \in Touched(indices) : indices[f[i]] = i}
    IN  {[i \in DOMAIN mem |->
            IF i \in Touched(indices) THEN new_weights[f[i]] ELSE mem[i]] :
         f \in Winners}

\* memory[indices] with a tensor of indices: a fresh tensor of the rows.
GetMemoryStack(mem, indices) == [k \in DOMAIN indices |-> mem[indices[k]]]

\* memory[i] with an integer: row i of the memory
GetMemoryRow(mem, i) == mem[i]

\* An indexing whose result is a view: row k of it is slot indices[k]
AdvancedIndexIsView(indices) == indices

\* The slots of the memory whose storage the rows of an indexing result
\* share.  Indexing with a tensor of indices copies the rows: none.
AdvancedIndexShares(indices) == <<>>

\* Indexing with an integer selects: the result is a view of row i.
BasicIndexShares(i) == <<i>>

\* A call of update_memory_stack on the agent's or the caller's memory
PvmWrite(new_weights, indices) ==
    /\ memory' \in UpdateMemoryStack(memory, new_weights, indices)
    /\ lastWrite' = [i \in Indices(n_samples) |->
           IF i \in Touched(indices)
           THEN {new_weights[k] : k \in {j \in DOMAIN indices : indices[j] = i}}
           ELSE lastWrite[i]]

PvmUpdate ==
    \E indices \in IndexBatches(n_samples) :
      \E new_weights \in [DOMAIN indices -> Actions] :
        /\ PvmWrite(new_weights, indices)
        /\ outcome' = [op |-> "update_memory_stack",
                       indices |-> Touched(indices),
                       overwrote |-> {i \in Touched(indices) : lastWrite[i] # {}}]
        /\ UNCHANGED <<n_samples, initial_weight, ermVars, netVars, trainVars, calls>>

PvmGet ==
    \E indices \in IndexBatches(n_samples) :
        /\ outcome' = [op |-> "get_memory_stack", kind |-> "tensor",
                       indices |-> indices,
                       value |-> GetMemoryStack(memory, indices),
                       shares |-> AdvancedIndexShares(indices)]
        /\ UNCHANGED <<pvmVars, ermVars, netVars, trainVars, calls>>

\* get_memory_stack(0): the first period's allocation, asked for with an
\* integer index
PvmGetRow ==
    /\ outcome' = [op |-> "get_memory_stack", kind |-> "int",
                   indices |-> <<0>>,
                   value |-> <<GetMemoryRow(memory, 0)>>,
                   shares |-> BasicIndexShares(0)]
    /\ UNCHANGED <<pvmVars, ermVars, netVars, trainVars, calls>>

\* The caller writes into the tensor get_memory_stack returned (an indexed
\* assignment or an in-place operation on it): the row changes in the
\* result, and in the memory too where the result shares its storage.
WriteReturned ==
    /\ outcome.op = "get_memory_stack"
    /\ \E k \in DOMAIN outcome.value : \E a \in Actions :
        /\ outcome' = [op |-> "write_returned", kind |-> outcome.kind,
                       index |-> outcome.indices[k], row |-> a]
        /\ memory' = IF k \in DOMAIN outcome.shares
                     THEN [memory EXCEPT ![outcome.shares[k]] = a]
                     ELSE memory
    /\ UNCHANGED <<n_samples, initial_weight, lastWrite, ermVars, netVars,
                   trainVars, calls>>

\* train is not running
NoTrain ==
    /\ pc = "idle" /\ epoch = 0 /\ idx = 0 /\ n_batches = 0
    /\ locals = [prev_index |-> <<>>] /\ stages = <<>> /\ writes = <<>>
    /\ passWrites = [i \in Indices(n_samples) |-> 0]

\* No agent: the memories are used on their own
NoAgent ==
    /\ actor = <<>> /\ critic = <<>>
    /\ target_actor = <<>> /\ target_critic = <<>>
    /\ tau = <<>>
    /\ actor_training = TRUE
    /\ calls = 0
    /\ NoTrain

InitPVM ==
    /\ n_samples = PvmSamples
    /\ initial_weight \in {None, EqualParts}
    /\ memory = PvmPostInit(n_samples, initial_weight)
    /\ lastWrite = [i \in Indices(n_samples) |-> {}]
    /\ buffer = <<>>
    /\ hist = <<>>
    /\ NoAgent
    /\ outcome = [op |-> "init"]

NextPVM == PvmUpdate \/ PvmGet

SpecPVM == InitPVM /\ [][NextPVM]_vars

\* The memory and a caller that also reads single rows and writes into
\* what it was handed
NextPvmCaller == PvmUpdate \/ PvmGet \/ PvmGetRow \/ WriteReturned

SpecPvmCaller == InitPVM /\ [][NextPvmCaller]_vars

(***************************************************************************)
(* ExperienceReplayMemory                                                  *)
(***************************************************************************)
\* A batch as add receives it: state = (state[0], state[1]), action, reward,
\* next_state = (next_state[0], next_state[1]), each with one entry per row.
\* Row k of the batch built here is the step at window t + k - 1 taking
\* action as[k] from the uniform allocation.
MakeBatch(t, as) ==
    [state0 |-> [k \in DOMAIN as |-> t + k - 1],
     state1 |-> [k \in DOMAIN as |-> UniformRow],
     action |-> as,
     reward |-> [k \in DOMAIN as |-> 0 - (t + k - 1)],
     next0  |-> [k \in DOMAIN as |-> t + k],
     next1  |-> as]

Rows(batch) == Len(batch.action)

\* ((state[0][i], state[1][i]), action[i], reward[i],
\*  (next_state[0][i], next_state[1][i])), i counted from 1 here
Experience(batch, i) ==
    <<<<batch.state0[i], batch.state1[i]>>, batch.action[i], batch.reward[i],
      <<batch.next0[i], batch.next1[i]>>>>

\* A deque that, when full, refuses the new item instead of the oldest
DequeAppendDropsNew(buf, x) ==
    IF Len(buf) >= maxlen THEN buf ELSE Append(buf, x)

\* deque.append on a deque with maxlen: when full, the leftmost item goes.
DequeAppend(buf, x) ==
    IF Len(buf) >= maxlen THEN Append(Tail(buf), x) ELSE Append(buf, x)

\* deque.extend(iterable): one append per item the iterable yields.
RECURSIVE DequeExtend(_, _)
DequeExtend(buf, items) ==
    IF items = <<>> THEN buf
    ELSE DequeExtend(DequeAppend(buf, Head(items)), Tail(items))

\* A generator that stops one row short: range(batch_size - 1)
YieldedButLast(batch, batch_size) ==
    LET k == IF batch_size <= Rows(batch) THEN batch_size - 1 ELSE Rows(batch)
    IN  [i \in 1..(IF k < 0 THEN 0 ELSE k) |-> Experience(batch, i)]

\* The generator of add: it yields the experience of row i for i in
\* range(batch_size), and raises IndexError at the first i past the batch's
\* rows.  extend has by then appended every item yielded before.
Yielded(batch, batch_size) ==
    LET k == IF batch_size <= Rows(batch) THEN batch_size ELSE Rows(batch)
    IN  [i \in 1..(IF k < 0 THEN 0 ELSE k) |-> Experience(batch, i)]

AddRaises(batch, batch_size) == batch_size > Rows(batch)

Add(buf, batch, batch_size) == DequeExtend(buf, Yielded(batch, batch_size))

\* A draw that may take a position more than once (replace=True)
ChoiceWithReplacement(population, size) ==
    [raised |-> size < 0 \/ (population = 0 /\ size > 0),
     draws  |-> IF size < 0 \/ (population = 0 /\ size > 0) THEN {}
                ELSE [1..size -> 0..(population - 1)]]

\* np.random.choice(population, size, replace=False): ValueError when size
\* exceeds the population (or is negative), else size distinct positions in
\* a random order.
Choice(population, size) ==
    [raised |-> size < 0 \/ size > population,
     draws  |-> IF size < 0 \/ size > population THEN {}
                ELSE {f \in [1..size -> 0..(population - 1)] :
                        \A a, b \in 1..size : a # b => f[a] # f[b]}]

\* state, action, reward, next_state = zip(*(buffer[i] for i in batch)):
\* with an empty batch zip yields nothing and the unpacking raises ValueError.
UnzipRaises(batch) == batch = <<>>

\* What sample returns for a draw: the four fields, one entry per position.
Sampled(buf, batch) ==
    [state      |-> [k \in DOMAIN batch |-> buf[batch[k] + 1][1]],
     action     |-> [k \in DOMAIN batch |-> buf[batch[k] + 1][2]],
     reward     |-> [k \in DOMAIN batch |-> buf[batch[k] + 1][3]],
     next_state |-> [k \in DOMAIN batch |-> buf[batch[k] + 1][4]]]

ErmAdd ==
    /\ Len(hist) < MaxAdded
    /\ \E as \in Batches(Actions) : \E batch_size \in 0..(MaxRows + 1) :
        LET batch == MakeBatch(Len(hist) + 1, as)
        IN  /\ buffer' = Add(buffer, batch, batch_size)
            /\ hist' = hist \o Yielded(batch, batch_size)
            /\ outcome' = [op |-> "add",
                           status |-> IF AddRaises(batch, batch_size)
                                      THEN "raised" ELSE "returned",
                           rows |-> Rows(batch), batch_size |-> batch_size,
                           before |-> buffer]
            /\ UNCHANGED <<pvmVars, netVars, trainVars, calls>>

ErmSample ==
    \E n \in 0..(maxlen + 1) :
        LET c == Choice(Len(buffer), n)
        IN  /\ \/ /\ c.raised
                  /\ outcome' = [op |-> "sample", status |-> "raised", n |-> n,
                                 before |-> buffer]
               \/ /\ ~c.raised
                  /\ \E batch \in c.draws :
                        outcome' =
                            IF UnzipRaises(batch)
                            THEN [op |-> "sample", status |-> "raised", n |-> n,
                                  before |-> buffer]
                            ELSE [op |-> "sample", status |-> "returned", n |-> n,
                                  before |-> buffer, batch |-> batch,
                                  value |-> Sampled(buffer, batch)]
            /\ UNCHANGED <<pvmVars, ermVars, netVars, trainVars, calls>>

\* __post_init__: an empty deque
InitReplay ==
    /\ n_samples = NSamples
    /\ initial_weight = None
    /\ memory = PvmPostInit(n_samples, initial_weight)
    /\ lastWrite = [i \in Indices(n_samples) |-> {}]
    /\ buffer = <<>>
    /\ hist = <<>>
    /\ NoAgent
    /\ outcome = [op |-> "init"]

NextReplay == ErmAdd \/ ErmSample

SpecReplay == InitReplay /\ [][NextReplay]_vars

(***************************************************************************)
(* float32.  Network parameters are float32 tensors, and soft_update does  *)
(* arithmetic on them: two products and a sum, each rounded to the nearest *)
(* float32 (ties to even).  A number is <<s, e, m>>, standing for          *)
(* (-1)^s * m * 2^e with 2^23 <= m < 2^24, or Zero.  Exponents are not     *)
(* bounded: the values below stay far from overflow and subnormals.        *)
(***************************************************************************)
\* 2^k for 0 <= k <= 30; 2^22, 2^23 and 2^24 are written out below
Pow2(k) == <<1, 2, 4, 8, 16, 32, 64, 128, 256, 512, 1024, 2048, 4096, 8192,
             16384, 32768, 65536, 131072, 262144, 524288, 1048576, 2097152,
             4194304, 8388608, 16777216, 33554432, 67108864, 134217728,
             268435456, 536870912, 1073741824>>[k + 1]

Zero == <<0, 0, 0>>

\* q * 2^e with the remainder r of q's last division by 2*half dropped:
\* round to nearest, ties to even; a carry out of 24 bits renormalises.
RoundNearestEven(s, e, q, r, half) ==
    LET up == r > half \/ (r = half /\ q % 2 = 1)
        q1 == IF up THEN q + 1 ELSE q
    IN  IF q1 = 16777216 THEN <<s, e + 1, 8388608>> ELSE <<s, e, q1>>

\* The float32 nearest to x * 2^e, for an integer 0 <= x < 2^31
RECURSIVE Normalise(_, _, _)
Normalise(s, e, x) ==
    IF x = 0 THEN Zero
    ELSE IF x < 8388608 THEN Normalise(s, e - 1, 2 * x)
    ELSE IF x < 16777216 THEN <<s, e, x>>
    ELSE LET k == CHOOSE j \in 1..7 : (x \div Pow2(j)) \in 8388608..(16777216 - 1)
         IN  RoundNearestEven(s, e + k, x \div Pow2(k), x % Pow2(k), Pow2(k - 1))

\* x * y in float32.  The 48-bit product of the mantissas is formed from
\* 12-bit halves as hi * 2^24 + lo.
FMul(x, y) ==
    IF x = Zero \/ y = Zero THEN Zero
    ELSE LET s  == (x[1] + y[1]) % 2
             e  == x[2] + y[2]
             a1 == x[3] \div 4096
             a0 == x[3] % 4096
             b1 == y[3] \div 4096
             b0 == y[3] % 4096
             mid == a1 * b0 + a0 * b1
             low == (mid % 4096) * 4096 + a0 * b0
             lo == low % 16777216
             hi == a1 * b1 + (mid \div 4096) + (low \div 16777216)
         IN  IF hi >= 8388608
             THEN RoundNearestEven(s, e + 24, hi, lo, 8388608)
             ELSE RoundNearestEven(s, e + 23, 2 * hi + (lo \div 8388608),
                                   lo % 8388608, 4194304)

\* x + y in float32, |x| >= |y| in exponent.  Both mantissas get six extra
\* low bits; y's is shifted right by the exponent gap, the bits shifted out
\* collected into the lowest bit (sticky).
AddOrdered(x, y) ==
    LET d  == x[2] - y[2]
        a  == x[3] * 64
        yq == IF d > 30 THEN 0 ELSE (y[3] * 64) \div Pow2(d)
        st == IF d > 30 THEN TRUE ELSE (y[3] * 64) % Pow2(d) # 0
        b  == IF st /\ yq % 2 = 0 THEN yq + 1 ELSE yq
    IN  IF x[1] = y[1] THEN Normalise(x[1], x[2] - 6, a + b)
        ELSE IF a >= b THEN Normalise(x[1], x[2] - 6, a - b)
        ELSE Normalise(y[1], x[2] - 6, b - a)

FAdd(x, y) ==
    IF x = Zero THEN y
    ELSE IF y = Zero THEN x
    ELSE IF x[2] >= y[2] THEN AddOrdered(x, y) ELSE AddOrdered(y, x)

\* x < y
FLess(x, y) ==
    LET Mag(u, v) == u[2] < v[2] \/ (u[2] = v[2] /\ u[3] < v[3])  \* |u| < |v|, both non-zero
    IN  IF x = Zero THEN y # Zero /\ y[1] = 0
        ELSE IF y = Zero THEN x[1] = 1
        ELSE IF x[1] # y[1] THEN x[1] = 1
        ELSE IF x[1] = 0 THEN Mag(x, y) ELSE Mag(y, x)

(***************************************************************************)
(* DDPGAgent: the networks                                                 *)
(***************************************************************************)
\* float32 values a parameter takes at construction or after an optimizer
\* step: 1, the float32 after 1, 3, the float32 before 3, and -1
One == <<0, -23, 8388608>>
OneUp == <<0, -23, 8388609>>
Three == <<0, -22, 12582912>>
ThreeDown == <<0, -22, 12582911>>
NegOne == <<1, -23, 8388608>>
ParamValues == {One, OneUp, Three, ThreeDown, NegOne}

\* The parameter tuples a network is given: all parameters alike, or 1 and 3
\* in turn
ParamVectors ==
    {[k \in 1..NParams |-> v] : v \in ParamValues}
        \cup {[k \in 1..NParams |-> IF k % 2 = 1 THEN One ELSE Three]}

\* tau as the float32 kernels receive it, with the 1.0 - tau Python computes
\* beside it: the default tau = 0.005, and tau = 0.5
TauDefault == [tau |-> <<0, -31, 10737418>>, one_minus_tau |-> <<0, -24, 16693330>>]
TauHalf == [tau |-> <<0, -24, 8388608>>, one_minus_tau |-> <<0, -24, 8388608>>]
Taus == {TauDefault, TauHalf}

\* clone_network: a new network of the same type loaded with the state_dict
CloneNetwork(network) == [k \in DOMAIN network |-> network[k]]

\* A hard update: the target takes the main network's value
SoftUpdateParamCopiesMain(target_param, main_param, t) == main_param

\* tau * main_param.data + (1.0 - tau) * target_param.data
SoftUpdateParam(target_param, main_param, t) ==
    FAdd(FMul(t.tau, main_param), FMul(t.one_minus_tau, target_param))

\* soft_update: for each pair zip gives, the target parameter is overwritten
\* (copy_) with the blend; it returns the target network's new parameters.
SoftUpdate(target_network, main_network, t) ==
    [k \in (DOMAIN target_network) \cap (DOMAIN main_network) |->
        SoftUpdateParam(target_network[k], main_network[k], t)]

\* select_action(state): self.actor.eval(); the actor's forward pass under
\* no_grad, which returns an action or raises (the network is not part of
\* the agent); self.actor.train() when it returned.
CallSelectAction ==
    /\ calls < MaxCalls
    /\ calls' = calls + 1
    /\ \E raised \in BOOLEAN :
        /\ actor_training' = ~raised
        /\ outcome' = [op |-> "select_action",
                       status |-> IF raised THEN "raised" ELSE "returned",
                       before |-> actor_training]
    /\ UNCHANGED <<actor, critic, target_actor, target_critic, tau,
                   pvmVars, ermVars, trainVars>>

\* update_target_networks
UpdateTargetNetworks ==
    /\ calls < MaxCalls
    /\ calls' = calls + 1
    /\ target_actor' = SoftUpdate(target_actor, actor, tau)
    /\ target_critic' = SoftUpdate(target_critic, critic, tau)
    /\ outcome' = [op |-> "update_target_networks",
                   target_actor |-> target_actor, actor |-> actor,
                   target_critic |-> target_critic, critic |-> critic]
    /\ UNCHANGED <<actor, critic, tau, actor_training, pvmVars, ermVars, trainVars>>

\* Optimizers built over the target networks' parameters
OptimizerHoldsTarget(optimizer) ==
    IF optimizer = "actor_optimizer" THEN "target_actor" ELSE "target_critic"

\* The network whose parameters an optimizer was built over:
\* Adam(self.actor.parameters(), ...) and Adam(self.critic.parameters(), ...)
OptimizerParams(optimizer) ==
    IF optimizer = "actor_optimizer" THEN "actor" ELSE "critic"

\* optimizer.step(): the parameters the optimizer holds take new values, and
\* no other network's parameters change.
OptimizerStep(optimizer) ==
    \E params \in ParamVectors :
        LET held == OptimizerParams(optimizer)
        IN  /\ actor' = IF held = "actor" THEN params ELSE actor
            /\ critic' = IF held = "critic" THEN params ELSE critic
            /\ target_actor' =
                    IF held = "target_actor" THEN params ELSE target_actor
            /\ target_critic' =
                    IF held = "target_critic" THEN params ELSE target_critic

\* train_critic(state, action, reward, next_state): one step of the critic's
\* optimizer; the target networks are evaluated under no_grad.
TrainCritic ==
    /\ calls < MaxCalls
    /\ calls' = calls + 1
    /\ OptimizerStep("critic_optimizer")
    /\ outcome' = [op |-> "train_critic"]
    /\ UNCHANGED <<tau, actor_training, pvmVars, ermVars, trainVars>>

\* A write back to the slots that were read
PlusZero(prev_index) == prev_index

\* prev_index + 1
PlusOne(prev_index) == [k \in DOMAIN prev_index |-> prev_index[k] + 1]

\* train_actor(price_tensor, prev_index): reads the memory at prev_index,
\* writes the actor's actions at prev_index + 1, then one step of the actor's
\* optimizer.
TrainActor ==
    /\ calls < MaxCalls
    /\ calls' = calls + 1
    /\ \E i \in Indices(n_samples - 1) : \E a \in Actions :
        LET prev_index == <<i>>
            previous_weights == GetMemoryStack(memory, prev_index)
            actions == <<a>>
        IN  PvmWrite(actions, PlusOne(prev_index))
    /\ OptimizerStep("actor_optimizer")
    /\ outcome' = [op |-> "train_actor"]
    /\ UNCHANGED <<tau, actor_training, n_samples, initial_weight, ermVars,
                   trainVars>>

\* __post_init__: the networks are built, the targets cloned from them, the
\* memories created, and update_target_networks() called.
InitAgent ==
    /\ n_samples = NSamples
    /\ initial_weight = None
    /\ memory = PvmPostInit(n_samples, initial_weight)
    /\ lastWrite = [i \in Indices(n_samples) |-> {}]
    /\ buffer = <<>>
    /\ hist = <<>>
    /\ tau \in Taus
    /\ actor \in ParamVectors
    /\ critic \in ParamVectors
    /\ target_actor = SoftUpdate(CloneNetwork(actor), actor, tau)
    /\ target_critic = SoftUpdate(CloneNetwork(critic), critic, tau)
    /\ actor_training = TRUE
    /\ calls = 0
    /\ NoTrain
    /\ outcome = [op |-> "init"]

NextAgent ==
    TrainCritic \/ TrainActor \/ UpdateTargetNetworks \/ CallSelectAction

SpecAgent == InitAgent /\ [][NextAgent]_vars

(***************************************************************************)
(* Portfolio: the end-of-period weights and the transaction remainder      *)
(* factor of portfolio.py.  The tensors are float32 of shape (batch_size,  *)
(* m_noncash_assets) and every operation works row by row                  *)
(* (sum(dim=1), a (batch_size, 1) view broadcast over the row), so the     *)
(* operators below take one row.                                           *)
(***************************************************************************)
\* nan: the result of 0 / 0, and of any operation on nan
NaN == <<0, 0, -1>>

FNeg(x) == IF x = Zero THEN Zero ELSE <<1 - x[1], x[2], x[3]>>

\* floor(num * 2^steps / den) and what is left over, bit by bit, from
\* q = num \div den and rem = num % den
RECURSIVE LongDivision(_, _, _, _)
LongDivision(q, rem, den, steps) ==
    IF steps = 0 THEN <<q, rem>>
    ELSE IF 2 * rem >= den
         THEN LongDivision(2 * q + 1, 2 * rem - den, den, steps - 1)
         ELSE LongDivision(2 * q, 2 * rem, den, steps - 1)

\* x / y in float32, y not zero
FDiv(x, y) ==
    IF x = Zero THEN Zero
    ELSE LET s  == (x[1] + y[1]) % 2
             k  == IF x[3] >= y[3] THEN 23 ELSE 24
             qr == LongDivision(x[3] \div y[3], x[3] % y[3], y[3], k)
         IN  RoundNearestEven(s, x[2] - y[2] - k, qr[1], 2 * qr[2], y[3])

\* The tensor operations the two methods use, on one element.  nan goes
\* through all of them (torch.abs and torch.relu included); no input below
\* divides a non-zero value by zero.
TMul(x, y) == IF x = NaN \/ y = NaN THEN NaN ELSE FMul(x, y)
TAdd(x, y) == IF x = NaN \/ y = NaN THEN NaN ELSE FAdd(x, y)
TSub(x, y) == IF x = NaN \/ y = NaN THEN NaN ELSE FAdd(x, FNeg(y))
TDiv(x, y) ==
    IF x = NaN \/ y = NaN \/ y = Zero THEN NaN ELSE FDiv(x, y)
TAbs(x) == IF x = NaN \/ x = Zero THEN x ELSE <<0, x[2], x[3]>>
TRelu(x) == IF x = NaN THEN NaN ELSE IF FLess(Zero, x) THEN x ELSE Zero

\* row.sum(): the elements added from the first on
RECURSIVE SumTo(_, _)
SumTo(row, k) == IF k = 1 THEN row[1] ELSE TAdd(SumTo(row, k - 1), row[k])

RowSum(row) == SumTo(row, Len(row))

\* The float32 tensor row of an allocation vector of fractions: num / den
\* as torch.ones(...) / (m + 1) computes it
Weights(v) ==
    [j \in DOMAIN v |-> TDiv(Normalise(0, 0, v[j][1]), Normalise(0, 0, v[j][2]))]

Half == <<0, -24, 8388608>>
Two == <<0, -22, 8388608>>

\* Allocations handed to the portfolio: the rows the memory holds, and
\* a half or the whole of the portfolio in one asset
PortfolioVectors ==
    {Weights(a) : a \in {UniformRow, AllCash, EqualParts}}
        \cup {[j \in 1..MNoncash |-> IF j = k THEN v ELSE Zero] :
                k \in 1..MNoncash, v \in {Half, One}}

\* Relative price vectors: no drift, the first asset doubled, all halved
PriceRelatives ==
    {[j \in 1..MNoncash |-> One],
     [j \in 1..MNoncash |-> IF j = 1 THEN Two ELSE One],
     [j \in 1..MNoncash |-> Half]}

\* comission_rate = 0.0026 and c * (2 - c), as float32 scalars
ComissionRate == <<0, -32, 11166915>>
ComissionTwoMinus == <<0, -31, 11152398>>
NIter == 3

\* (yt * wt_prev) / (yt * wt_prev).sum(dim=1).view(batch_size, 1)
GetEndOfPeriodWeights(yt, wt_prev) ==
    LET prod == [j \in DOMAIN wt_prev |-> TMul(yt[j], wt_prev[j])]
    IN  [j \in DOMAIN wt_prev |-> TDiv(prod[j], RowSum(prod))]

\* One pass of the loop: update_term, then the new ut_k
RECURSIVE RemainderLoop(_, _, _, _, _, _)
RemainderLoop(ut_k, wt, wt_prime, wt_cash, wt_cash_prime, n_iter) ==
    IF n_iter = 0 THEN ut_k
    ELSE LET update_term ==
                 RowSum([j \in DOMAIN wt |->
                            TRelu(TSub(wt_prime[j], TMul(ut_k, wt[j])))])
             next_ut ==
                 TMul(TDiv(One, TSub(One, TMul(ComissionRate, wt_cash))),
                      TSub(TSub(One, TMul(ComissionRate, wt_cash_prime)),
                           TMul(ComissionTwoMinus, update_term)))
         IN  RemainderLoop(next_ut, wt, wt_prime, wt_cash, wt_cash_prime, n_iter - 1)

\* get_transacton_remainder_factor(wt, yt, wt_prev) with the default
\* comission_rate and n_iter
GetTransactonRemainderFactor(wt, yt, wt_prev) ==
    LET wt_prime == GetEndOfPeriodWeights(yt, wt_prev)
        wt_cash_prime == TSub(One, RowSum(wt_prime))
        wt_cash == TSub(One, RowSum(wt))
        ut_0 == TMul(ComissionRate,
                     RowSum([j \in DOMAIN wt |-> TAbs(TSub(wt[j], wt_prime[j]))]))
    IN  RemainderLoop(ut_0, wt, wt_prime, wt_cash, wt_cash_prime, NIter)

CallGetEndOfPeriodWeights ==
    \E yt \in PriceRelatives : \E wt_prev \in PortfolioVectors :
        /\ outcome' = [op |-> "get_end_of_period_weights",
                       yt |-> yt, wt_prev |-> wt_prev,
                       value |-> GetEndOfPeriodWeights(yt, wt_prev)]
        /\ UNCHANGED <<pvmVars, ermVars, netVars, trainVars, calls>>

CallGetTransactonRemainderFactor ==
    \E wt \in PortfolioVectors : \E yt \in PriceRelatives :
      \E wt_prev \in PortfolioVectors :
        /\ outcome' = [op |-> "get_transacton_remainder_factor",
                       wt |-> wt, yt |-> yt, wt_prev |-> wt_prev,
                       value |-> GetTransactonRemainderFactor(wt, yt, wt_prev)]
        /\ UNCHANGED <<pvmVars, ermVars, netVars, trainVars, calls>>

\* A portfolio on its own: the methods are pure, the object holds the prices
InitPortfolio ==
    /\ n_samples = NSamples
    /\ initial_weight = None
    /\ memory = PvmPostInit(n_samples, initial_weight)
    /\ lastWrite = [i \in Indices(n_samples) |-> {}]
    /\ buffer = <<>>
    /\ hist = <<>>
    /\ NoAgent
    /\ outcome = [op |-> "init"]

NextPortfolio == CallGetEndOfPeriodWeights \/ CallGetTransactonRemainderFactor

SpecPortfolio == InitPortfolio /\ [][NextPortfolio]_vars

(***************************************************************************)
(* DDPGAgent.train                                                         *)
(***************************************************************************)
\* def train_actor(self, price_tensor, prev_index): parameters after self
TrainActorParams == 2
\* self.train_actor(state_batch, action_batch, reward_batch,
\* next_state_batch): arguments of the call in train
TrainActorArgs == 4

Rewards == {0, -1}

NoLocals ==
    [prev_index |-> <<>>, previous_action |-> <<>>, action |-> <<>>,
     reward |-> <<>>, sampled |-> <<>>]

\* xt and xt_next, a window per row, named by the period they are aligned to
Windows(prev_index) == [k \in DOMAIN prev_index |-> prev_index[k]]

\* A state that shows the memory as it is when the batch is built, as a
\* view of the memory would
TrainBatchOfMemory(l) ==
    [state0 |-> [k \in DOMAIN l.prev_index |-> l.prev_index[k]],
     state1 |-> [k \in DOMAIN l.prev_index |-> memory[l.prev_index[k]]],
     action |-> l.action,
     reward |-> l.reward,
     next0  |-> [k \in DOMAIN l.prev_index |-> l.prev_index[k] + 1],
     next1  |-> l.action]

\* state = (xt, previous_action), action, reward, next_state = (xt_next, action)
TrainBatch(l) ==
    [state0 |-> Windows(l.prev_index),
     state1 |-> l.previous_action,
     action |-> l.action,
     reward |-> l.reward,
     next0  |-> Windows(PlusOne(l.prev_index)),
     next1  |-> l.action]

\* for epoch in range(self.n_epochs): ...; log.plot_epochs(...)
EpochLoop ==
    /\ pc = "epoch"
    /\ IF epoch < NEpochs
       THEN pc' = "fetch" /\ idx' = 0
       ELSE pc' = "done" /\ idx' = idx
    /\ passWrites' = IF epoch < NEpochs
                     THEN [i \in Indices(n_samples) |-> 0] ELSE passWrites
    /\ outcome' = IF epoch < NEpochs THEN outcome
                  ELSE [op |-> "train", status |-> "returned"]
    /\ UNCHANGED <<epoch, n_batches, locals, stages, writes,
                   pvmVars, ermVars, netVars, calls>>

\* for idx, (xt, xt_next, prev_index) in enumerate(...): the pipeline hands
\* over the next triple, of batch_size rows or fewer (the sampler is not
\* part of the agent), or the pass is over (log.report_avgs(epoch + 1)).
Fetch ==
    /\ pc = "fetch"
    /\ IF idx < n_batches
       THEN /\ \E rows \in 1..BatchSize :
                 \E prev_index \in [1..rows -> Indices(n_samples - 1)] :
                    locals' = [NoLocals EXCEPT !.prev_index = prev_index]
            /\ pc' = "read"
            /\ epoch' = epoch
       ELSE /\ locals' = NoLocals
            /\ pc' = "epoch"
            /\ epoch' = epoch + 1
    /\ stages' = <<>>
    /\ writes' = <<>>
    /\ UNCHANGED <<idx, n_batches, passWrites, pvmVars, ermVars, netVars, calls,
                   outcome>>

\* previous_action = self.pvm.get_memory_stack(prev_index)
ReadPvm ==
    /\ pc = "read"
    /\ locals' = [locals EXCEPT
                    !.previous_action = GetMemoryStack(memory, locals.prev_index)]
    /\ stages' = Append(stages, "pvm_read")
    /\ pc' = "select"
    /\ UNCHANGED <<epoch, idx, n_batches, writes, passWrites,
                   pvmVars, ermVars, netVars, calls, outcome>>

\* action = self.select_action(state): actor.eval(), the actor's output
\* under no_grad, actor.train()
SelectAction ==
    /\ pc = "select"
    /\ \E action \in [DOMAIN locals.prev_index -> Actions] :
        locals' = [locals EXCEPT !.action = action]
    /\ actor_training' = TRUE
    /\ stages' = Append(stages, "select_action")
    /\ pc' = "write"
    /\ UNCHANGED <<epoch, idx, n_batches, writes, passWrites, pvmVars, ermVars,
                   actor, critic, target_actor, target_critic, tau, calls, outcome>>

\* self.pvm.update_memory_stack(action.detach(), prev_index + 1)
WritePvm ==
    /\ pc = "write"
    /\ PvmWrite(locals.action, PlusOne(locals.prev_index))
    /\ writes' = Append(writes, PlusOne(locals.prev_index))
    /\ passWrites' = [i \in Indices(n_samples) |->
           IF i \in Touched(PlusOne(locals.prev_index))
           THEN passWrites[i] + 1 ELSE passWrites[i]]
    /\ stages' = Append(stages, "pvm_write")
    /\ pc' = "reward"
    /\ UNCHANGED <<epoch, idx, n_batches, locals, n_samples, initial_weight,
                   ermVars, netVars, calls, outcome>>

\* yt = 1 / xt[:, 0, :, -2]; reward = self.portfolio.get_reward(...): one
\* reward per row, decided by the price data
GetReward ==
    /\ pc = "reward"
    /\ \E r \in Rewards :
        locals' = [locals EXCEPT !.reward = [k \in DOMAIN locals.prev_index |-> r]]
    /\ stages' = Append(stages, "reward")
    /\ pc' = "add"
    /\ UNCHANGED <<epoch, idx, n_batches, writes, passWrites,
                   pvmVars, ermVars, netVars, calls, outcome>>

\* self.replay_memory.add(state, action, reward, next_state, self.batch_size)
ReplayAdd ==
    /\ pc = "add"
    /\ buffer' = Add(buffer, TrainBatch(locals), BatchSize)
    /\ hist' = hist \o Yielded(TrainBatch(locals), BatchSize)
    /\ IF AddRaises(TrainBatch(locals), BatchSize)
       THEN /\ pc' = "failed"
            /\ stages' = stages
            /\ outcome' = [op |-> "train", status |-> "raised", error |-> "IndexError"]
       ELSE /\ pc' = "sample"
            /\ stages' = Append(stages, "replay_add")
            /\ outcome' = outcome
    /\ UNCHANGED <<epoch, idx, n_batches, locals, writes, passWrites, pvmVars, netVars, calls>>

\* ... = self.replay_memory.sample(self.batch_size)
ReplaySample ==
    /\ pc = "sample"
    /\ LET c == Choice(Len(buffer), BatchSize)
       IN  IF c.raised \/ BatchSize = 0
           THEN /\ pc' = "failed"
                /\ locals' = locals
                /\ stages' = stages
                /\ outcome' = [op |-> "train", status |-> "raised", error |-> "ValueError"]
           ELSE /\ \E batch \in c.draws :
                    locals' = [locals EXCEPT !.sampled = Sampled(buffer, batch)]
                /\ pc' = "critic"
                /\ stages' = Append(stages, "replay_sample")
                /\ outcome' = outcome
    /\ UNCHANGED <<epoch, idx, n_batches, writes, passWrites, pvmVars, ermVars, netVars, calls>>

\* critic_loss = self.train_critic(state_batch, action_batch, reward_batch,
\* next_state_batch)
CallTrainCritic ==
    /\ pc = "critic"
    /\ OptimizerStep("critic_optimizer")
    /\ stages' = Append(stages, "critic_update")
    /\ pc' = "actor"
    /\ UNCHANGED <<epoch, idx, n_batches, locals, writes, passWrites, pvmVars,
                   ermVars, tau, actor_training, calls, outcome>>

\* actor_loss = self.train_actor(state_batch, action_batch, reward_batch,
\* next_state_batch): four arguments for two parameters, so the call raises
\* TypeError before train_actor's body runs, and train ends with it.  The
\* rest of the step (update_target_networks, log.record) is never reached.
CallTrainActor ==
    /\ pc = "actor"
    /\ TrainActorArgs # TrainActorParams
    /\ pc' = "failed"
    /\ outcome' = [op |-> "train", status |-> "raised", error |-> "TypeError"]
    /\ UNCHANGED <<epoch, idx, n_batches, locals, stages, writes, passWrites,
                   pvmVars, ermVars, netVars, calls>>

\* def train(self): called again on the same agent, after an earlier call
\* returned or raised.  Nothing of the agent is re-created.
CallTrain ==
    /\ pc \in {"done", "failed"}
    /\ calls + 1 < TrainCalls
    /\ calls' = calls + 1
    /\ pc' = "epoch" /\ epoch' = 0 /\ idx' = 0
    /\ locals' = NoLocals /\ stages' = <<>> /\ writes' = <<>>
    /\ outcome' = [op |-> "train", status |-> "running"]
    /\ UNCHANGED <<n_batches, passWrites, pvmVars, ermVars, netVars>>

\* The agent as __post_init__ leaves it, and train() entered.
Init ==
    /\ n_samples = NSamples
    /\ initial_weight = None
    /\ memory = PvmPostInit(n_samples, initial_weight)
    /\ lastWrite = [i \in Indices(n_samples) |-> {}]
    /\ buffer = <<>>
    /\ hist = <<>>
    /\ tau = TauDefault
    /\ actor = [k \in 1..NParams |-> One]
    /\ critic = [k \in 1..NParams |-> One]
    /\ target_actor = SoftUpdate(CloneNetwork(actor), actor, tau)
    /\ target_critic = SoftUpdate(CloneNetwork(critic), critic, tau)
    /\ actor_training = TRUE
    /\ calls = 0
    /\ pc = "epoch" /\ epoch = 0 /\ idx = 0
    /\ n_batches \in 0..MaxBatches
    /\ locals = NoLocals /\ stages = <<>> /\ writes = <<>>
    /\ passWrites = [i \in Indices(n_samples) |-> 0]
    /\ outcome = [op |-> "train", status |-> "running"]

Next ==
    \/ EpochLoop \/ Fetch \/ ReadPvm \/ SelectAction \/ WritePvm \/ GetReward
    \/ ReplayAdd \/ ReplaySample \/ CallTrainCritic \/ CallTrainActor

Spec == Init /\ [][Next]_vars

\* train() called on the agent more than once
NextRetrain ==
    \/ EpochLoop \/ Fetch \/ ReadPvm \/ SelectAction \/ WritePvm \/ GetReward
    \/ ReplayAdd \/ ReplaySample \/ CallTrainCritic \/ CallTrainActor
    \/ CallTrain

SpecRetrain == Init /\ [][NextRetrain]_vars

(***************************************************************************)
(* Claims about PortfolioVectorMemory                                      *)
(***************************************************************************)
\* C1: after any sequence of update_memory_stack calls, get_memory_stack(i)
\* returns, for every index i, the row the most recent update call that
\* targeted i carried for i (one of them, when that call named i twice),
\* and the uniform row 1/(m_noncash_assets+1) if no call targeted i.
C1_LastWriteWins ==
    \A i \in Indices(n_samples) :
        LET got == GetMemoryStack(memory, <<i>>)[1]
        IN  IF lastWrite[i] = {} THEN got = UniformRow ELSE got \in lastWrite[i]

\* an update that wrote an index an earlier call had written, beside an
\* index no call has written
C1_Witness ==
    /\ outcome.op = "update_memory_stack"
    /\ \E i \in outcome.overwrote : lastWrite[i] = {AllCash} /\ memory[i] = AllCash
    /\ \E j \in Indices(n_samples) : lastWrite[j] = {} /\ memory[j] = UniformRow

\* C6: before any update, the entry at index 0 is the user-supplied
\* initial_weight when one was given, and the uniform allocation otherwise.
C6_InitialWeightAtIndexZero ==
    lastWrite[0] = {} =>
        memory[0] = (IF initial_weight = None THEN UniformRow ELSE initial_weight)

\* a step that was an update left every entry outside its indices alone,
\* and a step that was a get changed no entry
UpdateAndGetFrame ==
    /\ outcome'.op = "update_memory_stack" =>
         \A i \in Indices(n_samples) \ outcome'.indices : memory'[i] = memory[i]
    /\ outcome'.op = "get_memory_stack" => memory' = memory

\* C18 as stated: update_memory_stack changes only the entries at the given
\* indices, get_memory_stack changes no entry, and writing into a value
\* get_memory_stack returned does not change the memory: it changes only
\* through update_memory_stack.
C18_FrameAndNoAlias_AsStated ==
    [][/\ UpdateAndGetFrame
       /\ outcome'.op # "update_memory_stack" => memory' = memory]_vars

\* C18 amended: update_memory_stack changes only the entries at the given
\* indices and get_memory_stack changes no entry; writing into the value
\* returned for a tensor of indices does not change the memory, while the
\* value returned for an integer index is a view of that row, and writing
\* into it changes that entry and no other.
C18_FrameAndNoAlias ==
    [][/\ UpdateAndGetFrame
       /\ outcome'.op = "write_returned" =>
            IF outcome'.kind = "tensor" THEN memory' = memory
            ELSE /\ memory'[outcome'.index] = outcome'.row
                 /\ \A i \in Indices(n_samples) \ {outcome'.index} :
                        memory'[i] = memory[i]]_vars

\* the caller has changed a row of the tensor it got for a tensor of
\* indices, and the memory still holds the row an update wrote there,
\* beside an entry no update has written
C18_Witness ==
    /\ outcome.op = "write_returned"
    /\ outcome.kind = "tensor"
    /\ outcome.row # memory[outcome.index]
    /\ memory[outcome.index] \in lastWrite[outcome.index]
    /\ \E j \in Indices(n_samples) : lastWrite[j] = {} /\ memory[j] = UniformRow

(***************************************************************************)
(* Claims about ExperienceReplayMemory                                     *)
(***************************************************************************)
\* the transitions the last add appended, read off the history
LastAppended ==
    LET k == IF outcome.batch_size <= outcome.rows
             THEN outcome.batch_size ELSE outcome.rows
    IN  SubSeq(hist, Len(hist) - k + 1, Len(hist))

\* C2: the buffer never holds more than maxlen transitions; an add that
\* would exceed maxlen evicts exactly the oldest k - (maxlen - len_before)
\* transitions of (buffer before, then the k appended), and what remains
\* keeps its insertion order: the buffer is always the newest end of
\* everything ever appended.
C2_BoundedFifo ==
    /\ Len(buffer) <= maxlen
    /\ buffer = SubSeq(hist, Len(hist) - Len(buffer) + 1, Len(hist))
    /\ outcome.op = "add" =>
         LET all == outcome.before \o LastAppended
             over == Len(all) - maxlen
         IN  buffer = IF over > 0 THEN SubSeq(all, over + 1, Len(all)) ELSE all

\* an add onto a non-empty buffer that ran over the capacity
C2_Witness ==
    /\ outcome.op = "add"
    /\ Len(outcome.before) >= 1
    /\ Len(LastAppended) >= 2
    /\ Len(outcome.before) + Len(LastAppended) > maxlen
    /\ Len(buffer) = maxlen

\* C3: sample(n) with n greater than the buffer's length raises and leaves
\* the buffer as it was.
C3_SampleTooManyFails ==
    (outcome.op = "sample" /\ outcome.n > Len(outcome.before)) =>
        (outcome.status = "raised" /\ buffer = outcome.before)

\* a sample of more than a non-empty buffer holds, which raised
C3_Witness ==
    /\ outcome.op = "sample"
    /\ Len(outcome.before) >= 1
    /\ outcome.n > Len(outcome.before)
    /\ outcome.status = "raised"

\* what a returned sample must be: n entries, from n pairwise distinct
\* positions of the buffer, the buffer untouched
SampleIsDistinct ==
    /\ outcome.status = "returned"
    /\ Len(outcome.batch) = outcome.n
    /\ \A a, b \in 1..outcome.n : a # b => outcome.batch[a] # outcome.batch[b]
    /\ \A a \in 1..outcome.n :
        /\ outcome.batch[a] \in 0..(Len(outcome.before) - 1)
        /\ outcome.value.action[a] = outcome.before[outcome.batch[a] + 1][2]
        /\ outcome.value.state[a] = outcome.before[outcome.batch[a] + 1][1]
    /\ buffer = outcome.before

\* C4 as stated: for every n <= len(buffer), sample(n) returns n entries
\* from n pairwise distinct positions and leaves the buffer unchanged.
C4_SampleDistinct_AsStated ==
    (outcome.op = "sample" /\ outcome.n <= Len(outcome.before)) => SampleIsDistinct

\* C4 amended: for every n with 1 <= n <= len(buffer), sample(n) returns n
\* entries from n pairwise distinct positions and leaves the buffer
\* unchanged (sample(0) raises: the unpacking of an empty zip fails).
C4_SampleDistinct ==
    (outcome.op = "sample" /\ 1 <= outcome.n /\ outcome.n <= Len(outcome.before))
        => SampleIsDistinct

\* a returned sample of two or more entries out of a larger buffer
C4_Witness ==
    /\ outcome.op = "sample"
    /\ outcome.status = "returned"
    /\ outcome.n >= 2
    /\ Len(outcome.before) > outcome.n

(***************************************************************************)
(* Claims about soft_update                                                *)
(***************************************************************************)
\* r lies strictly between t and m
StrictlyBetween(r, t, m) ==
    (FLess(t, r) /\ FLess(r, m)) \/ (FLess(m, r) /\ FLess(r, t))

\* |m - t| >= 2^-14 * max(|m|, |t|)
FarApart(m, t) ==
    IF m = t THEN FALSE
    ELSE IF m = Zero \/ t = Zero \/ m[1] # t[1] THEN TRUE
    ELSE LET big   == IF m[2] > t[2] \/ (m[2] = t[2] /\ m[3] >= t[3]) THEN m ELSE t
             small == IF big = m THEN t ELSE m
             d     == big[2] - small[2]
         IN  IF d >= 2 THEN TRUE
             ELSE LET b == big[3] * Pow2(d)
                  IN  b - small[3] >= (b + 16383) \div 16384

\* what one soft_update(target, main, tau) call must have done, given the
\* parameters before it and the target's parameters after it
BlendedFrom(target_after, target_before, main_before) ==
    /\ DOMAIN target_after = DOMAIN target_before
    /\ \A k \in DOMAIN target_before :
        target_after[k] =
            FAdd(FMul(tau.tau, main_before[k]), FMul(tau.one_minus_tau, target_before[k]))

C5_IndexZeroKept ==
    /\ memory[0] = PvmPostInit(n_samples, initial_weight)[0]
    /\ lastWrite[0] = {}
    /\ \A w \in DOMAIN writes : 0 \notin Touched(writes[w])

\* the step read index 0 and has written the memory: slot 1 holds an action
C5_Witness ==
    /\ pc \in {"reward", "add", "sample", "critic", "actor", "failed"}
    /\ 0 \in Touched(locals.prev_index)
    /\ Len(writes) = 1
    /\ memory[1] \in Actions
    /\ memory[0] = UniformRow

\* C7: train ends only after n_epochs passes, each pass having processed
\* every triple through the soft update; there is no early exit.
C7_TrainRunsAllEpochs ==
    pc \in {"done", "failed"} => (pc = "done" /\ epoch = NEpochs)

StageOrder ==
    <<"pvm_read", "select_action", "pvm_write", "reward", "replay_add",
      "replay_sample", "critic_update", "actor_update", "soft_update">>

\* C8: the stages of a step occur in the order PVM read, action selection,
\* PVM write, reward, replay add, replay sample, critic update, actor update,
\* soft update, and a step is over only when all nine have completed.
C8_StageOrder ==
    /\ Len(stages) <= Len(StageOrder)
    /\ \A k \in DOMAIN stages : stages[k] = StageOrder[k]
    /\ pc = "failed" => stages = StageOrder

\* C9: by the end of a step the memory has been written twice, both times at
\* the step's prev_index + 1: by the loop, then by the actor update.
C9_ActorRewrites ==
    pc = "failed" =>
        writes = <<PlusOne(locals.prev_index), PlusOne(locals.prev_index)>>

(***************************************************************************)
(* Claims about Portfolio                                                  *)
(***************************************************************************)
\* 2^-16
Tolerance == <<0, -39, 8388608>>

\* x is a number and |x - 1| <= 2^-16
ApproximatelyOne(x) ==
    x # NaN /\ ~FLess(Tolerance, TAbs(TSub(x, One)))

\* C11: for every allocation w, get_transacton_remainder_factor with
\* w_t = w_prev = w and y_t all ones returns a factor approximately equal
\* to 1: no trade and no drift cost nothing.
C11_NoTradeNoCost ==
    (/\ outcome.op = "get_transacton_remainder_factor"
     /\ outcome.wt = outcome.wt_prev
     /\ outcome.yt = [j \in 1..MNoncash |-> One])
        => ApproximatelyOne(outcome.value)

\* a pass is over, or train ended inside it
PassEnded == (pc = "epoch" /\ epoch >= 1) \/ pc \in {"done", "failed"}

\* C12: within one training pass no entry is written more than once, and
\* when a pass of a non-empty pipeline has ended every entry other than
\* index 0 has been written exactly once in it.
C12_WrittenOncePerPass ==
    /\ \A i \in Indices(n_samples) : passWrites[i] <= 1
    /\ (PassEnded /\ n_batches >= 1) =>
           \A i \in Indices(n_samples) \ {0} : passWrites[i] = 1

\* C13: the memory is reset to the initial allocation at the start of each
\* training pass and not within one: an entry the current pass has not
\* written holds the initial allocation, and an entry it has written holds
\* what was written.
C13_ResetAtPassStart ==
    \A i \in Indices(n_samples) :
        IF passWrites[i] = 0
        THEN memory[i] = PvmPostInit(n_samples, initial_weight)[i]
        ELSE memory[i] \in lastWrite[i]

\* C14: every call of replay_memory.sample(batch_size) that train reaches
\* finds at least batch_size transitions in the buffer, the step's own add
\* having come first, and train never ends with sample's ValueError.
C14_SampleHasEnough ==
    /\ pc = "sample" =>
        /\ Len(buffer) >= BatchSize
        /\ ~Choice(Len(buffer), BatchSize).raised
        /\ stages[Len(stages)] = "replay_add"
    /\ pc = "failed" => outcome.error # "ValueError"

\* the sample of the very first step returned, drawn from a buffer that
\* holds the batch_size transitions of that step and nothing else
C14_Witness ==
    /\ pc = "critic"
    /\ stages[Len(stages)] = "replay_sample"
    /\ Len(hist) = BatchSize
    /\ Len(buffer) = BatchSize
    /\ Len(locals.sampled.action) = BatchSize

\* C15: every transition train stores has, as the allocation of its state,
\* the memory's value at its prior index when the step read it, and as the
\* allocation of its next_state its own action; what is stored stays as it
\* is whatever is written to the memory afterwards.
C15_StoredAllocations ==
    [][/\ pc = "read" =>
            locals'.previous_action =
                [k \in DOMAIN locals.prev_index |-> memory[locals.prev_index[k]]]
       /\ pc \in {"select", "write", "reward"} =>
            locals'.previous_action = locals.previous_action
       /\ pc = "add" =>
            LET new == SubSeq(hist', Len(hist) + 1, Len(hist'))
            IN  \A k \in DOMAIN new :
                    /\ new[k][1] = <<locals.prev_index[k], locals.previous_action[k]>>
                    /\ new[k][2] = locals.action[k]
                    /\ new[k][4][2] = new[k][2]
       /\ Len(hist') >= Len(hist)
       /\ SubSeq(hist', 1, Len(hist)) = hist
       /\ \A k \in DOMAIN buffer' :
            buffer'[k] = hist'[Len(hist') - Len(buffer') + k]
      ]_vars

\* a full batch was stored, and one of its transitions holds the allocation
\* read at its prior index although the step has overwritten that entry
C15_Witness ==
    /\ pc = "sample"
    /\ Len(locals.prev_index) = BatchSize
    /\ \E k \in DOMAIN locals.prev_index :
        LET t == hist[Len(hist) - BatchSize + k]
        IN  /\ t[1][2] = UniformRow
            /\ memory[locals.prev_index[k]] # UniformRow
            /\ t[4][2] = locals.action[k]

\* C16: add with a batch of b rows and batch_size = b appends exactly b
\* transitions, the i-th made of row i of every field, in row order; add
\* with fewer rows than batch_size raises and leaves the buffer as it was.
C16_AddAllOrNothing ==
    outcome.op = "add" =>
        /\ outcome.batch_size = outcome.rows =>
            /\ outcome.status = "returned"
            /\ Len(LastAppended) = outcome.rows
            /\ \A k \in DOMAIN LastAppended :
                LET t == LastAppended[k]
                    window == Len(hist) - outcome.rows + k
                IN  /\ t[1] = <<window, UniformRow>>
                    /\ t[3] = 0 - window
                    /\ t[4] = <<window + 1, t[2]>>
        /\ outcome.rows < outcome.batch_size =>
            /\ outcome.status = "raised"
            /\ buffer = outcome.before

(***************************************************************************)
(* Claims about the agent's methods                                        *)
(***************************************************************************)
\* C17: whenever select_action has returned or raised, the actor is in the
\* mode (training or eval) it was in before the call.
C17_ModeRestored ==
    outcome.op = "select_action" => actor_training = outcome.before

\* C19: a train_critic call changes no parameter but the critic's, a
\* train_actor call none but the actor's, and the parameters of the two
\* target networks change in update_target_networks only.
C19_TargetsOnlySoftUpdated ==
    [][/\ outcome'.op = "train_critic" =>
            /\ actor' = actor
            /\ target_actor' = target_actor /\ target_critic' = target_critic
            /\ memory' = memory
       /\ outcome'.op = "train_actor" =>
            /\ critic' = critic
            /\ target_actor' = target_actor /\ target_critic' = target_critic
       /\ (target_actor' # target_actor \/ target_critic' # target_critic) =>
            outcome'.op = "update_target_networks"
      ]_vars

\* both optimizers have stepped, moving the actor and the critic far from
\* their targets, and the actor update has written the memory
C19_Witness ==
    /\ outcome.op \in {"train_critic", "train_actor"}
    /\ FarApart(actor[1], target_actor[1])
    /\ FarApart(critic[1], target_critic[1])
    /\ \E i \in Indices(n_samples) : lastWrite[i] # {}

\* C20: right after construction every parameter of target_actor equals the
\* corresponding parameter of actor, and every parameter of target_critic
\* that of critic (the closing soft update changes nothing).
C20_TargetsEqualMains ==
    outcome.op = "init" => target_actor = actor /\ target_critic = critic

=============================================================================
